---- MODULE Spec2Model ----
(***************************************************************************)
(* kado-ai (package ai): the sanitizing aggregation pipeline of            *)
(* AIClient.RunAI and the redactor AIClient.sanitizeContent.               *)
(*                                                                         *)
(* Text is a sequence of one-character strings.  The redaction rules are   *)
(* the regular expressions of ai.go written as syntax trees, matched with  *)
(* the leftmost-first (backtracking priority) semantics of Go's regexp     *)
(* package, so that sanitizeContent is computed the way the code computes  *)
(* it.                                                                     *)
(***************************************************************************)
EXTENDS Integers, Sequences, FiniteSets, TLC

VARIABLES
    \* ---- one AIClient and its environment (specification Spec) ----
    clientType,              \* AIClient.clientType, fixed at construction
    terraformDir,            \* <iacPath>/terraform on disk
    ansibleDir,              \* <iacPath>/ansible on disk
    planFile,                \* <iacPath>/terraform/plan.json on disk
    aiInputFile,             \* <iacPath>/ai_input.txt on disk
    stage,                   \* where the current RunAI call is
    runs,                    \* RunAI calls started on this client
    terraformAndRegoCode,    \* RunAI locals
    ansibleAndRegoCode,
    terraformPlan,
    args,                    \* the evaluated arguments of the fmt.Sprintf call
    input,
    saved,                   \* how os.WriteFile of ai_input.txt went in this run
    response,
    recommendations,
    requests,                \* requests handed to http.Client.Do in this run
    result,                  \* RunAI's return values
    err,                     \* the local err of RunAI
    trace,                   \* history: the stages this run has left
    \* ---- sanitizeContent as a pure function (specification SanSpec) ----
    sample,                  \* the input, by its parts
    original,                \* the input text
    redacted,                \* sanitizeContent(text)
    again,                   \* sanitizeContent(redacted)
    step

runVars == <<clientType, terraformDir, ansibleDir, planFile, aiInputFile, stage, runs,
             terraformAndRegoCode, ansibleAndRegoCode, terraformPlan, args, input, saved,
             response, recommendations, requests, result, err, trace>>
sanVars == <<sample, original, redacted, again, step>>
vars == <<runVars, sanVars>>

(***************************************************************************)
(* Characters                                                              *)
(***************************************************************************)
LowerLetters == <<"a","b","c","d","e","f","g","h","i","j","k","l","m",
                  "n","o","p","q","r","s","t","u","v","w","x","y","z">>
UpperLetters == <<"A","B","C","D","E","F","G","H","I","J","K","L","M",
                  "N","O","P","Q","R","S","T","U","V","W","X","Y","Z">>
Range(q) == {q[k] : k \in 1..Len(q)}
Letters == Range(LowerLetters) \cup Range(UpperLetters)
Digits == {"0","1","2","3","4","5","6","7","8","9"}
\* \w, \s and [0-9a-fA-F] of Go's regexp syntax (ASCII classes)
WordChars == Letters \cup Digits \cup {"_"}
SpaceChars == {" ", "\t", "\n", "\f", "\r"}
HexChars == Digits \cup {"a","b","c","d","e","f","A","B","C","D","E","F"}

LetterIndex(c) == CHOOSE k \in 1..26 : c = LowerLetters[k] \/ c = UpperLetters[k]
\* the characters a literal c matches under the flag (?i)
FoldCase(c) ==
    IF c \in Letters THEN {LowerLetters[LetterIndex(c)], UpperLetters[LetterIndex(c)]}
    ELSE {c}
\* strings.ToLower
ToLower(s) ==
    [k \in 1..Len(s) |-> IF s[k] \in Range(UpperLetters)
                         THEN LowerLetters[LetterIndex(s[k])] ELSE s[k]]

(***************************************************************************)
(* Regular expressions: syntax trees                                       *)
(***************************************************************************)
In(S) == [t |-> "in", s |-> S]                    \* [...]
NotIn(S) == [t |-> "notin", s |-> S]              \* [^...]
Cat(rs) == [t |-> "cat", rs |-> rs]               \* r1 r2 ... rn
Alt(rs) == [t |-> "alt", rs |-> rs]               \* r1|r2|...|rn
Rep(r, lo, hi) == [t |-> "rep", r |-> r, lo |-> lo, hi |-> hi]   \* r{lo,hi}, greedy
WordBoundary == [t |-> "wordb"]                   \* \b
Unbounded == -1
Opt(r) == Rep(r, 0, 1)                            \* r?
Star(r) == Rep(r, 0, Unbounded)                   \* r*
Plus(r) == Rep(r, 1, Unbounded)                   \* r+
Lit(str) == Cat([k \in 1..Len(str) |-> In({str[k]})])
LitI(str) == Cat([k \in 1..Len(str) |-> In(FoldCase(str[k]))])   \* under (?i)

(***************************************************************************)
(* Matching.  Match(r, s, i) is the sequence of offsets at which a match   *)
(* of r that starts at offset i of s can end, in the order a backtracking  *)
(* matcher tries them: its first element ends the leftmost-first match.    *)
(***************************************************************************)
\* ps without its repeated elements, first occurrences kept in order
Uniq(ps) ==
    IF Len(ps) <= 1 THEN ps
    ELSE LET first == {k \in 1..Len(ps) : \A j \in 1..(k - 1) : ps[j] # ps[k]}
             nth(g) == CHOOSE k \in first : Cardinality({j \in first : j < k}) = g - 1
         IN [g \in 1..Cardinality(first) |-> ps[nth(g)]] \o <<>>

IsWordAt(s, k) == k >= 1 /\ k <= Len(s) /\ s[k] \in WordChars
AtWordBoundary(s, i) == IsWordAt(s, i) # IsWordAt(s, i + 1)

Accepts(r, c) == IF r.t = "in" THEN c \in r.s ELSE c \notin r.s
IsCharClass(r) == r.t \in {"in", "notin"}

\* a greedy repetition of a one-character class: the longest run first
MatchRun(r, lo, hi, s, i) ==
    LET room == IF hi = Unbounded \/ hi > Len(s) - i THEN Len(s) - i ELSE hi
        stops == {k \in 1..room : ~Accepts(r, s[i + k])}
        run == IF stops = {} THEN room
               ELSE (CHOOSE k \in stops : \A j \in stops : k <= j) - 1
    IN IF run < lo THEN <<>> ELSE [g \in 1..(run - lo + 1) |-> i + run - g + 1] \o <<>>

RECURSIVE Match(_, _, _), MatchEach(_, _, _, _), MatchCat(_, _, _, _), MatchAlt(_, _, _, _), MatchRep(_, _, _, _, _)
Match(r, s, i) ==
    CASE r.t = "in" -> IF i < Len(s) /\ s[i + 1] \in r.s THEN <<i + 1>> ELSE <<>>
      [] r.t = "notin" -> IF i < Len(s) /\ s[i + 1] \notin r.s THEN <<i + 1>> ELSE <<>>
      [] r.t = "wordb" -> IF AtWordBoundary(s, i) THEN <<i>> ELSE <<>>
      [] r.t = "cat" -> MatchCat(r.rs, 1, s, <<i>>)
      [] r.t = "alt" -> MatchAlt(r.rs, 1, s, i)
      [] r.t = "rep" -> IF IsCharClass(r.r) THEN MatchRun(r.r, r.lo, r.hi, s, i)
                        ELSE MatchRep(r.r, r.lo, r.hi, s, i)

\* the ends of r from each start of ps, starts in order
MatchEach(r, s, ps, k) ==
    IF k > Len(ps) THEN <<>> ELSE Match(r, s, ps[k]) \o MatchEach(r, s, ps, k + 1)

MatchCat(rs, k, s, ps) ==
    IF k > Len(rs) \/ ps = <<>> THEN ps
    ELSE MatchCat(rs, k + 1, s, Uniq(MatchEach(rs[k], s, ps, 1)))

MatchAlt(rs, k, s, i) ==
    IF k > Len(rs) THEN <<>> ELSE Uniq(Match(rs[k], s, i) \o MatchAlt(rs, k + 1, s, i))

\* greedy: one more repetition is tried before stopping
MatchRep(r, lo, hi, s, i) ==
    LET once == IF hi = 0 THEN <<>> ELSE SelectSeq(Match(r, s, i), LAMBDA e : e > i)
        nlo == IF lo > 0 THEN lo - 1 ELSE 0
        nhi == IF hi = Unbounded THEN Unbounded ELSE hi - 1
    IN Uniq(MatchEach(Rep(r, nlo, nhi), s, once, 1) \o (IF lo = 0 THEN <<i>> ELSE <<>>))

\* the end of the leftmost-first match of r at offset i, -1 if there is none
FirstEnd(r, s, i) ==
    LET ends == Match(r, s, i) IN IF ends # <<>> /\ ends[1] > i THEN ends[1] ELSE -1

\* regexp.ReplaceAllString with a template that uses no group: every
\* non-overlapping match, left to right, becomes repl
RECURSIVE ReplaceFrom(_, _, _, _)
ReplaceFrom(ends, s, repl, i) ==
    LET starts == {j \in i..(Len(s) - 1) : ends[j + 1] > j}
    IN IF starts = {} THEN SubSeq(s, i + 1, Len(s))
       ELSE LET j == CHOOSE j \in starts : \A k \in starts : j <= k
            IN SubSeq(s, i + 1, j) \o repl \o ReplaceFrom(ends, s, repl, ends[j + 1])
ReplaceAllString(r, s, repl) ==
    ReplaceFrom([j \in 1..Len(s) |-> FirstEnd(r, s, j - 1)] \o <<>>, s, repl, 0)

\* the group ends of the leftmost-first match of group1 group2 ... at offset i
NoMatch == <<-1>>
RECURSIVE FindSubmatch(_, _, _, _), TryEnds(_, _, _, _, _)
FindSubmatch(groups, k, s, i) ==
    IF k > Len(groups) THEN <<>>
    ELSE TryEnds(groups, k, s, Match(groups[k], s, i), 1)
TryEnds(groups, k, s, ends, j) ==
    IF j > Len(ends) THEN NoMatch
    ELSE LET rest == FindSubmatch(groups, k + 1, s, ends[j])
         IN IF rest = NoMatch THEN TryEnds(groups, k, s, ends, j + 1)
            ELSE <<ends[j]>> \o rest

(***************************************************************************)
(* sanitizeContent: the rules of sensitivePatterns, in the order of the    *)
(* source, then the URL rule.                                              *)
(***************************************************************************)
Quotes == {"'", "\""}
Sp == In(SpaceChars)
Hex == In(HexChars)
Digit == In(Digits)
REDACTED == <<"[","R","E","D","A","C","T","E","D","]">>

\* (\s*[=:]\s*)   and   \s*[:=]?\s*
Assign == Cat(<<Star(Sp), In({"=", ":"}), Star(Sp)>>)
AssignOpt == Cat(<<Star(Sp), Opt(In({":", "="})), Star(Sp)>>)
\* ['"]?[^\s'",]+['"]?   and   ['"]?[^\s'",}]+['"]?
Value ==
    Cat(<<Opt(In(Quotes)), Plus(NotIn(SpaceChars \cup {"'", "\"", ","})), Opt(In(Quotes))>>)
ValueInBraces ==
    Cat(<<Opt(In(Quotes)), Plus(NotIn(SpaceChars \cup {"'", "\"", ",", "}"})),
          Opt(In(Quotes))>>)
\* ("?\w*KEY"?\s*[:=]?\s*\{?\s*"?value"?\s*[:=]?\s*)['"]?[^\s'",}]+['"]?
NestedValueOf(key) ==
    Cat(<<Opt(In({"\""})), Star(In(WordChars)), key, Opt(In({"\""})), AssignOpt,
          Opt(In({"{"})), Star(Sp), Opt(In({"\""})), LitI(<<"v","a","l","u","e">>), Opt(In({"\""})),
          AssignOpt, ValueInBraces>>)
\* (password|secret|key|token)
SecretWord == Alt(<<LitI(<<"p","a","s","s","w","o","r","d">>), LitI(<<"s","e","c","r","e","t">>), LitI(<<"k","e","y">>), LitI(<<"t","o","k","e","n">>)>>)

\* (?i)(aws_access_key|aws_secret_key|password|token|secret|api_key)(\s*[=:]\s*)['"]?[^\s'",]+['"]?
KeyValueSecret ==
    Cat(<<Alt(<<LitI(<<"a","w","s","_","a","c","c","e","s","s","_","k","e","y">>), LitI(<<"a","w","s","_","s","e","c","r","e","t","_","k","e","y">>), LitI(<<"p","a","s","s","w","o","r","d">>),
                LitI(<<"t","o","k","e","n">>), LitI(<<"s","e","c","r","e","t">>), LitI(<<"a","p","i","_","k","e","y">>)>>),
          Assign, Value>>)
\* (?i)(private_key)(\s*[=:]\s*)['"]?-----BEGIN[^'",]*-----END[^'",]*['"]?
PrivateKeyBlock ==
    Cat(<<LitI(<<"p","r","i","v","a","t","e","_","k","e","y">>), Assign, Opt(In(Quotes)),
          LitI(<<"-","-","-","-","-","B","E","G","I","N">>), Star(NotIn({"'", "\"", ","})),
          LitI(<<"-","-","-","-","-","E","N","D">>), Star(NotIn({"'", "\"", ","})), Opt(In(Quotes))>>)
\* (?i)(connection_string)(\s*[=:]\s*)['"]?[^\s'",]+['"]?
ConnectionString == Cat(<<LitI(<<"c","o","n","n","e","c","t","i","o","n","_","s","t","r","i","n","g">>), Assign, Value>>)
\* (?i)(bearer\s+)['"]?[^\s'",]+['"]?
BearerToken == Cat(<<LitI(<<"b","e","a","r","e","r">>), Plus(Sp), Value>>)
\* (?i)("?\w*password"?\s*[:=]?\s*\{?\s*"?value"?\s*[:=]?\s*)['"]?[^\s'",}]+['"]?
NestedPassword == NestedValueOf(LitI(<<"p","a","s","s","w","o","r","d">>))
\* (?i)("?\w*user"?\s*[:=]?\s*\{?\s*"?value"?\s*[:=]?\s*)['"]?[^\s'",}]+['"]?
NestedUser == NestedValueOf(LitI(<<"u","s","e","r">>))
\* (?i)("?\w*(password|secret|key|token)"?\s*[:=]?\s*["'])[^"']+["']
QuotedSecret ==
    Cat(<<Opt(In({"\""})), Star(In(WordChars)), SecretWord, Opt(In({"\""})), AssignOpt,
          In(Quotes), Plus(NotIn(Quotes)), In(Quotes)>>)
\* (?i)("?\w*(password|secret|key|token)"?\s*[:=]?\s*\{?\s*"?value"?\s*[:=]?\s*)['"]?[^\s'",}]+['"]?
NestedSecret == NestedValueOf(SecretWord)

\* 25[0-5]|2[0-4][0-9]|[01]?[0-9][0-9]?
Octet ==
    Alt(<<Cat(<<Lit(<<"2","5">>), In({"0","1","2","3","4","5"})>>),
          Cat(<<Lit(<<"2">>), In({"0","1","2","3","4"}), Digit>>),
          Cat(<<Opt(In({"0","1"})), Digit, Opt(Digit)>>)>>)
\* \b(?:(?:OCTET)\.){3}(?:OCTET)\b
IPv4 == Cat(<<WordBoundary, Rep(Cat(<<Octet, Lit(<<".">>)>>), 3, 3), Octet, WordBoundary>>)

\* [0-9a-fA-F]{1,4}   [0-9a-fA-F]{1,4}:   :[0-9a-fA-F]{1,4}
H4 == Rep(Hex, 1, 4)
H4Colon == Cat(<<H4, Lit(<<":">>)>>)
ColonH4 == Cat(<<Lit(<<":">>), H4>>)
\* 25[0-5]|(?:2[0-4]|1{0,1}[0-9]){0,1}[0-9]
Octet6 ==
    Alt(<<Cat(<<Lit(<<"2","5">>), In({"0","1","2","3","4","5"})>>),
          Cat(<<Rep(Alt(<<Cat(<<Lit(<<"2">>), In({"0","1","2","3","4"})>>),
                          Cat(<<Rep(Lit(<<"1">>), 0, 1), Digit>>)>>), 0, 1), Digit>>)>>)
\* (?:(?:OCTET6)\.){3,3}(?:OCTET6)
Dotted6 == Cat(<<Rep(Cat(<<Octet6, Lit(<<".">>)>>), 3, 3), Octet6>>)
\* \b(?: the twelve alternatives of the IPv6 rule, in source order )\b
IPv6 ==
    Cat(<<WordBoundary,
          Alt(<<Cat(<<Rep(H4Colon, 7, 7), H4>>),
                Cat(<<Rep(H4Colon, 1, 7), Lit(<<":">>)>>),
                Cat(<<Rep(H4Colon, 1, 6), Lit(<<":">>), H4>>),
                Cat(<<Rep(H4Colon, 1, 5), Rep(ColonH4, 1, 2)>>),
                Cat(<<Rep(H4Colon, 1, 4), Rep(ColonH4, 1, 3)>>),
                Cat(<<Rep(H4Colon, 1, 3), Rep(ColonH4, 1, 4)>>),
                Cat(<<Rep(H4Colon, 1, 2), Rep(ColonH4, 1, 5)>>),
                Cat(<<H4, Lit(<<":">>), Rep(ColonH4, 1, 6)>>),
                Cat(<<Lit(<<":">>), Alt(<<Rep(ColonH4, 1, 7), Lit(<<":">>)>>)>>),
                Cat(<<Lit(<<"f","e","8","0",":">>), Rep(Cat(<<Lit(<<":">>), Rep(Hex, 0, 4)>>), 0, 4), Lit(<<"%">>),
                      Plus(In(Digits \cup Letters))>>),
                Cat(<<Lit(<<":",":">>),
                      Rep(Cat(<<Lit(<<"f","f","f","f">>),
                                Rep(Cat(<<Lit(<<":">>), Rep(Lit(<<"0">>), 1, 4)>>), 0, 1),
                                Lit(<<":">>)>>), 0, 1),
                      Dotted6>>),
                Cat(<<Rep(H4Colon, 1, 4), Lit(<<":">>), Dotted6>>)>>),
          WordBoundary>>)

sensitivePatterns ==
    <<KeyValueSecret, PrivateKeyBlock, ConnectionString, BearerToken, NestedPassword,
      NestedUser, QuotedSecret, NestedSecret, IPv4, IPv6>>

\* for _, pattern := range sensitivePatterns { content = re.ReplaceAllString(content, "[REDACTED]") }
RECURSIVE ApplyPatterns(_, _, _)
ApplyPatterns(ps, k, content) ==
    IF k > Len(ps) THEN content
    ELSE ApplyPatterns(ps, k + 1, ReplaceAllString(ps[k], content, REDACTED))

\* (https?://)([\w.-]+)(\/?\S*)
UrlScheme == Cat(<<Lit(<<"h","t","t","p">>), Opt(Lit(<<"s">>)), Lit(<<":","/","/">>)>>)
UrlHost == Plus(In(WordChars \cup {".", "-"}))
UrlRest == Cat(<<Opt(Lit(<<"/">>)), Star(NotIn(SpaceChars))>>)
urlPattern == <<UrlScheme, UrlHost, UrlRest>>

\* re.ReplaceAllString(content, "${1}[REDACTED]${3}"): found[j + 1] holds the
\* group ends of the match at offset j
RECURSIVE ExpandFrom(_, _, _)
ExpandFrom(found, s, i) ==
    LET starts == {j \in i..(Len(s) - 1) : found[j + 1] # NoMatch}
    IN IF starts = {} THEN SubSeq(s, i + 1, Len(s))
       ELSE LET j == CHOOSE j \in starts : \A k \in starts : j <= k
                m == found[j + 1]
            IN SubSeq(s, i + 1, j) \o SubSeq(s, j + 1, m[1]) \o REDACTED
               \o SubSeq(s, m[2] + 1, m[3]) \o ExpandFrom(found, s, m[3])
ReplaceUrl(s) ==
    ExpandFrom([j \in 1..Len(s) |-> FindSubmatch(urlPattern, 1, s, j - 1)] \o <<>>, s, 0)

sanitizeContent(content) ==
    ReplaceUrl(ApplyPatterns(sensitivePatterns, 1, content))

(***************************************************************************)
(* The file system under iacPath, and the Directory Scanner                *)
(***************************************************************************)
iacPath == <<"/","i","a","c">>
\* filepath.Join
Join(dir, name) == dir \o <<"/">> \o name
TerraformPath == Join(iacPath, <<"t","e","r","r","a","f","o","r","m">>)
AnsiblePath == Join(iacPath, <<"a","n","s","i","b","l","e">>)
TerraformExtensions == <<<<".","t","f">>, <<".","r","e","g","o">>>>
AnsibleExtensions == <<<<".","y","m","l">>, <<".","y","a","m","l">>, <<".","r","e","g","o">>>>

\* strings.HasSuffix
HasSuffix(s, suffix) ==
    Len(suffix) <= Len(s) /\ SubSeq(s, Len(s) - Len(suffix) + 1, Len(s)) = suffix

\* a directory is [state, files]: state is "missing" (lstat fails), "denied"
\* (the directory cannot be listed) or "present"; files are the regular files
\* below it in the order filepath.Walk visits them (lexical), each
\* [name, content, readable]
File(name, content, readable) == [name |-> name, content |-> content, readable |-> readable]
Missing == [state |-> "missing", files |-> <<>>]
Denied == [state |-> "denied", files |-> <<>>]
Present(files) == [state |-> "present", files |-> files]

\* the error filepath.Walk returns for a root that cannot be walked, as %v prints it
WalkError(dir, tree) ==
    IF tree.state = "missing" THEN <<"l","s","t","a","t"," ">> \o dir \o <<":"," ","n","o"," ","s","u","c","h"," ","f","i","l","e"," ","o","r"," ","d","i","r","e","c","t","o","r","y">>
    ELSE <<"o","p","e","n"," ">> \o dir \o <<":"," ","p","e","r","m","i","s","s","i","o","n"," ","d","e","n","i","e","d">>

\* fmt.Sprintf("File: %s\n%s\n\n", path, fileContent) for a file the walk keeps:
\* a regular file whose name ends with one of the extensions and that can be read
FileBlock(dir, file, extensions) ==
    IF (\E k \in 1..Len(extensions) : HasSuffix(file.name, extensions[k])) /\ file.readable
    THEN <<"F","i","l","e",":"," ">> \o Join(dir, file.name) \o <<"\n">> \o file.content \o <<"\n","\n">>
    ELSE <<>>

RECURSIVE WalkFiles(_, _, _, _)
WalkFiles(dir, files, extensions, k) ==
    IF k > Len(files) THEN <<>>
    ELSE FileBlock(dir, files[k], extensions) \o WalkFiles(dir, files, extensions, k + 1)

\* a plausible slip: a root that cannot be walked scans as the empty document
scanDirectoryTolerant(dir, tree, extensions) ==
    IF tree.state # "present" THEN <<>>
    ELSE WalkFiles(dir, tree.files, extensions, 1)

scanDirectory(dir, tree, extensions) ==
    IF tree.state # "present"
    THEN <<"E","r","r","o","r"," ","s","c","a","n","n","i","n","g"," ","d","i","r","e","c","t","o","r","y"," ">> \o dir \o <<":"," ">> \o WalkError(dir, tree)
    ELSE WalkFiles(dir, tree.files, extensions, 1)

\* errors are the chain of their messages, outermost first; nil is the empty chain
nil == <<>>
Errorf(msg, cause) == <<msg>> \o cause

\* os.ReadFile of <iacPath>/terraform/plan.json
extractFileContent(file) ==
    IF file.exists THEN [data |-> file.content, err |-> nil]
    ELSE [data |-> <<>>, err |-> <<"open plan.json: no such file or directory">>]

PlanNotFound == <<"T","e","r","r","a","f","o","r","m"," ","p","l","a","n"," ","n","o","t"," ","f","o","u","n","d">>

\* the prompt: the fixed template of RunAI with its three %s filled in
Sprintf(a) == [terraform |-> a[1], ansible |-> a[2], plan |-> a[3]]
NoInput == [terraform |-> <<>>, ansible |-> <<>>, plan |-> <<>>]

(***************************************************************************)
(* The confirmation gate, the backends and the response envelope           *)
(***************************************************************************)
\* a gate that only an explicit "no" closes
AffirmativeUnlessNo(r) == ToLower(r) # <<"n","o">>
\* strings.ToLower(response) != "yes" is false
Affirmative(r) == ToLower(r) = <<"y","e","s">>

apiKey == "test-api-key"
model == "test-model"
MaxTokens == 1024

NoRequest ==
    [supported |-> FALSE, url |-> "", headers |-> {},
     requestBody |-> [model |-> "", max_tokens |-> 0, messages |-> <<>>]]
ChatRequest(prompt) ==
    [supported |-> TRUE, url |-> "https://api.openai.com/v1/chat/completions",
     headers |-> {<<"Content-Type", <<"application/json">> >>,
                  <<"Authorization", <<"Bearer ", apiKey>> >>},
     requestBody |-> [model |-> model, max_tokens |-> 0,
                      messages |-> <<[role |-> "user", content |-> prompt]>>]]
MessagesRequest(prompt) ==
    [supported |-> TRUE, url |-> "https://api.anthropic.com/v1/messages",
     headers |-> {<<"Content-Type", <<"application/json">> >>, <<"x-api-key", <<apiKey>> >>,
                  <<"anthropic-version", <<"2023-06-01">> >>},
     requestBody |-> [model |-> model, max_tokens |-> MaxTokens,
                      messages |-> <<[role |-> "user", content |-> prompt]>>]]

\* a plausible slip: the switch has no default and falls back to the first backend
BuildRequestNoDefault(kind, prompt) ==
    IF kind = "anthropic_messages" THEN MessagesRequest(prompt) ELSE ChatRequest(prompt)

\* the switch of getRecommendations and the request it builds; max_tokens 0
\* stands for a body without the field
BuildRequest(kind, prompt) ==
    CASE kind = "chatgpt" -> ChatRequest(prompt)
      [] kind = "anthropic_messages" -> MessagesRequest(prompt)
      [] OTHER -> NoRequest

\* JSON values as encoding/json decodes them into interface{}
JNull == [k |-> "null", s |-> "", a |-> <<>>, o |-> <<>>]
JString(x) == [k |-> "string", s |-> x, a |-> <<>>, o |-> <<>>]
JNumber == [k |-> "number", s |-> "", a |-> <<>>, o |-> <<>>]
JArray(elems) == [k |-> "array", s |-> "", a |-> elems, o |-> <<>>]
\* an object is the sequence of its <<key, value>> members
JObject(members) == [k |-> "object", s |-> "", a |-> <<>>, o |-> members]
HasKey(obj, key) == \E n \in 1..Len(obj.o) : obj.o[n][1] = key
Get(obj, key) == obj.o[CHOOSE n \in 1..Len(obj.o) : obj.o[n][1] = key][2]

\* a response body: well-formed JSON text with its value, or not JSON at all
Body(v) == [json |-> TRUE, v |-> v]
NotJson == [json |-> FALSE, v |-> JNull]
NoBody == NotJson

Bodies ==
    << NotJson,
       Body(JObject(<< <<"content", JArray(<< JObject(<< <<"text", JString("X")>> >>) >>)>> >>)),
       Body(JObject(<< <<"content", JArray(<< JObject(<< <<"type", JString("text")>>,
                                                          <<"text", JString("X")>> >>),
                                              JObject(<< <<"text", JString("Y")>> >>) >>)>> >>)),
       Body(JObject(<< <<"content", JArray(<<>>)>> >>)),
       Body(JObject(<<>>)),
       Body(JObject(<< <<"content", JString("X")>> >>)),
       Body(JObject(<< <<"content", JNull>> >>)),
       Body(JObject(<< <<"choices", JArray(<< JObject(<< <<"message", JObject(<< <<"content", JString("X")>> >>)>> >>) >>)>> >>)),
       Body(JObject(<< <<"content", JArray(<< JObject(<< <<"type", JString("text")>> >>) >>)>> >>)),
       Body(JObject(<< <<"content", JArray(<< JObject(<< <<"text", JNumber>> >>) >>)>> >>)),
       Body(JObject(<< <<"content", JArray(<< JString("X") >>)>> >>)),
       Body(JObject(<< <<"content", JArray(<< JNull >>)>> >>)),
       Body(JArray(<< JNumber >>)),
       Body(JString("X")),
       Body(JNull) >>

\* lines 125-141 of RunAI: what decoding a body ends in
\*   json.Unmarshal into a map fails for text that is not JSON and for a value
\*   that is neither an object nor null; null leaves the map nil
\*   content[0].(map[string]interface{}) is a one-value type assertion: it
\*   panics when content[0] is not an object
Decode(body) ==
    IF ~body.json \/ body.v.k \notin {"object", "null"}
    THEN [end |-> "Failed", text |-> "", err |-> <<"failed to parse response", "json">>]
    ELSE IF body.v.k = "null" \/ ~HasKey(body.v, "content")
            \/ Get(body.v, "content").k # "array" \/ Get(body.v, "content").a = <<>>
    THEN [end |-> "Failed", text |-> "", err |-> <<"no content found in the response">>]
    ELSE LET first == Get(body.v, "content").a[1]
         IN IF first.k # "object"
            THEN [end |-> "Panicked", text |-> "", err |-> nil]
            ELSE IF ~HasKey(first, "text") \/ Get(first, "text").k # "string"
            THEN [end |-> "Failed", text |-> "",
                  err |-> <<"unable to extract text content from the response">>]
            ELSE [end |-> "Done", text |-> Get(first, "text").s, err |-> nil]

(***************************************************************************)
(* RunAI, one step per stage                                               *)
(***************************************************************************)
MaxRuns == 2

ClientTypes == {"chatgpt", "anthropic_messages", "test-client", ""}
TerraformMain == <<"p","a","s","s","w","o","r","d"," ","="," ","\"","s","3","c","r","3","t","\"">>
PolicyRego == <<"p","a","c","k","a","g","e"," ","m","a","i","n">>
AnsibleSite == <<"a","n","s","i","b","l","e","_","h","o","s","t",":"," ","1","0",".","0",".","0",".","1">>
PlanJson == <<"{","\"","t","o","k","e","n","\"",":"," ","\"","a","b","c","\"","}">>
TerraformTrees ==
    { Missing,
      Present(<<File(<<"m","a","i","n",".","t","f">>, TerraformMain, TRUE)>>),
      Present(<<File(<<"m","a","i","n",".","t","f">>, TerraformMain, TRUE), File(<<"n","o","t","e","s",".","t","x","t">>, PolicyRego, TRUE),
                File(<<"p","o","l","i","c","y",".","r","e","g","o">>, PolicyRego, FALSE)>>) }
AnsibleTrees == { Missing, Denied, Present(<<File(<<"s","i","t","e",".","y","m","l">>, AnsibleSite, TRUE)>>) }
NoFile == [exists |-> FALSE, content |-> <<>>]
\* what fmt.Scanln stores in response: one token of the line typed, or nothing
Answers == { <<"y","e","s">>, <<"Y","E","S">>, <<"Y","e","s">>, <<"n","o">>, <<"y">>, <<>> }

NoPrompt == [exists |-> FALSE, content |-> NoInput]
NoResult == [returned |-> FALSE, text |-> "", err |-> nil]
Return(t, e) == [returned |-> TRUE, text |-> t, err |-> e]
NoSample == [kind |-> "none", head |-> <<>>, lead |-> <<>>, mid |-> <<>>, tail |-> <<>>]

sanIdle ==
    /\ sample = NoSample /\ original = <<>> /\ redacted = <<>> /\ again = <<>> /\ step = "idle"

\* the locals of a RunAI call that has just been entered
Entered ==
    /\ stage' = "Scanning"
    /\ terraformAndRegoCode' = <<>> /\ ansibleAndRegoCode' = <<>> /\ terraformPlan' = <<>>
    /\ args' = <<>> /\ input' = NoInput /\ saved' = "none" /\ response' = <<>>
    /\ recommendations' = NoBody /\ requests' = <<>> /\ result' = NoResult /\ err' = nil
    /\ trace' = <<>>

Init ==
    /\ clientType \in ClientTypes
    /\ terraformDir \in TerraformTrees
    /\ ansibleDir \in AnsibleTrees
    /\ planFile \in {NoFile} \cup (IF terraformDir.state = "present"
                                   THEN {[exists |-> TRUE, content |-> PlanJson]} ELSE {})
    /\ aiInputFile = NoPrompt
    /\ stage = "Scanning" /\ runs = 1
    /\ terraformAndRegoCode = <<>> /\ ansibleAndRegoCode = <<>> /\ terraformPlan = <<>>
    /\ args = <<>> /\ input = NoInput /\ saved = "none" /\ response = <<>>
    /\ recommendations = NoBody /\ requests = <<>> /\ result = NoResult /\ err = nil
    /\ trace = <<>>
    /\ sanIdle

environment == <<clientType, terraformDir, ansibleDir, planFile>>

\* lines 81-85: the two scans and the read of plan.json
Scan ==
    /\ stage = "Scanning"
    /\ terraformAndRegoCode' = scanDirectory(TerraformPath, terraformDir, TerraformExtensions)
    /\ ansibleAndRegoCode' = scanDirectory(AnsiblePath, ansibleDir, AnsibleExtensions)
    /\ terraformPlan' = extractFileContent(planFile).data
    /\ err' = extractFileContent(planFile).err
    /\ stage' = "Redacting"
    /\ trace' = Append(trace, stage)
    /\ UNCHANGED <<environment, aiInputFile, runs, args, input, saved, response,
                   recommendations, requests, result, sanVars>>

\* lines 86-90 and 104-106: the plan or its marker, and the two redacted documents
Redact ==
    /\ stage = "Redacting"
    /\ terraformPlan' = IF err # nil THEN PlanNotFound ELSE sanitizeContent(terraformPlan)
    /\ args' = <<sanitizeContent(terraformAndRegoCode), sanitizeContent(ansibleAndRegoCode),
                 terraformPlan'>>
    /\ stage' = "Assembling"
    /\ trace' = Append(trace, stage)
    /\ UNCHANGED <<environment, aiInputFile, runs, terraformAndRegoCode, ansibleAndRegoCode,
                   input, saved, response, recommendations, requests, result, err, sanVars>>

\* a plausible slip: the error of saveAIInput is dropped
AssembleIgnoringSaveError ==
    /\ stage = "Assembling"
    /\ input' = Sprintf(args)
    /\ \E outcome \in {"ok", "open_failed", "write_failed"} :
          /\ saved' = outcome
          /\ aiInputFile' = CASE outcome = "ok" -> [exists |-> TRUE, content |-> input']
                              [] outcome = "write_failed" -> [exists |-> TRUE, content |-> NoInput]
                              [] OTHER -> aiInputFile
          /\ stage' = "AwaitingConfirmation" /\ UNCHANGED result
    /\ trace' = Append(trace, stage)
    /\ UNCHANGED <<environment, runs, terraformAndRegoCode, ansibleAndRegoCode, terraformPlan,
                   args, response, recommendations, requests, err, sanVars>>

\* lines 92-110 and saveAIInput: the prompt is built and written to
\* <iacPath>/ai_input.txt; os.WriteFile may fail before it truncates the file
\* (open_failed) or after (write_failed)
Assemble ==
    /\ stage = "Assembling"
    /\ input' = Sprintf(args)
    /\ \E outcome \in {"ok", "open_failed", "write_failed"} :
          /\ saved' = outcome
          /\ aiInputFile' = CASE outcome = "ok" -> [exists |-> TRUE, content |-> input']
                              [] outcome = "write_failed" -> [exists |-> TRUE, content |-> NoInput]
                              [] OTHER -> aiInputFile
          /\ IF outcome = "ok"
             THEN stage' = "AwaitingConfirmation" /\ UNCHANGED result
             ELSE /\ stage' = "Failed"
                  /\ result' = Return("", Errorf("failed to save AI input",
                                      Errorf("failed to save AI input to file", <<outcome>>)))
    /\ trace' = Append(trace, stage)
    /\ UNCHANGED <<environment, runs, terraformAndRegoCode, ansibleAndRegoCode, terraformPlan,
                   args, response, recommendations, requests, err, sanVars>>

\* a plausible slip: the error fmt.Scanln returns for an empty line is reported
ConfirmReportingScanError ==
    /\ stage = "AwaitingConfirmation"
    /\ \E r \in Answers :
          /\ response' = r
          /\ IF r = <<>>
             THEN stage' = "Failed" /\ result' = Return("", <<"unexpected newline">>)
             ELSE IF Affirmative(r)
             THEN stage' = "Sending" /\ UNCHANGED result
             ELSE stage' = "Cancelled" /\ result' = Return("", <<"operation cancelled by user">>)
    /\ trace' = Append(trace, stage)
    /\ UNCHANGED <<environment, aiInputFile, runs, terraformAndRegoCode, ansibleAndRegoCode,
                   terraformPlan, args, input, saved, recommendations, requests, err, sanVars>>

\* lines 112-118: the confirmation gate
Confirm ==
    /\ stage = "AwaitingConfirmation"
    /\ \E r \in Answers :
          /\ response' = r
          /\ IF Affirmative(r)
             THEN stage' = "Sending" /\ UNCHANGED result
             ELSE stage' = "Cancelled" /\ result' = Return("", <<"operation cancelled by user">>)
    /\ trace' = Append(trace, stage)
    /\ UNCHANGED <<environment, aiInputFile, runs, terraformAndRegoCode, ansibleAndRegoCode,
                   terraformPlan, args, input, saved, recommendations, requests, err, sanVars>>

\* lines 120-123 and getRecommendations: json.Marshal of these maps and
\* http.NewRequest of a fixed method and URL do not fail; client.Do issues the
\* request and may fail, and so may reading the body
Send ==
    /\ stage = "Sending"
    /\ LET req == BuildRequest(clientType, input)
       IN IF ~req.supported
          THEN /\ err' = Errorf("unsupported AI client", <<clientType>>)
               /\ result' = Return("", Errorf("failed to get recommendations", err'))
               /\ stage' = "Failed"
               /\ UNCHANGED <<requests, recommendations>>
          ELSE /\ requests' = Append(requests, req)
               /\ \/ \E failure \in {"client.Do", "io.ReadAll"} :
                        /\ err' = <<failure>>
                        /\ result' = Return("", Errorf("failed to get recommendations", err'))
                        /\ stage' = "Failed"
                        /\ UNCHANGED recommendations
                  \/ \E n \in 1..Len(Bodies) :
                        /\ recommendations' = Bodies[n]
                        /\ err' = nil
                        /\ stage' = "Decoding"
                        /\ UNCHANGED result
    /\ trace' = Append(trace, stage)
    /\ UNCHANGED <<environment, aiInputFile, runs, terraformAndRegoCode, ansibleAndRegoCode,
                   terraformPlan, args, input, saved, response, sanVars>>

\* lines 125-141: the response envelope is decoded
DecodeResponse ==
    /\ stage = "Decoding"
    /\ LET d == Decode(recommendations)
       IN /\ stage' = d.end
          /\ result' = IF d.end = "Panicked" THEN result ELSE Return(d.text, d.err)
    /\ trace' = Append(trace, stage)
    /\ UNCHANGED <<environment, aiInputFile, runs, terraformAndRegoCode, ansibleAndRegoCode,
                   terraformPlan, args, input, saved, response, recommendations, requests, err,
                   sanVars>>

\* RunAI is called again on the same client; a panic ended the process
RunAgain ==
    /\ stage \in {"Done", "Cancelled", "Failed"}
    /\ runs < MaxRuns
    /\ runs' = runs + 1
    /\ Entered
    /\ UNCHANGED <<environment, aiInputFile, sanVars>>

Next == Scan \/ Redact \/ Assemble \/ Confirm \/ Send \/ DecodeResponse \/ RunAgain

Spec == Init /\ [][Next]_vars

(***************************************************************************)
(* sanitizeContent on its own: inputs by their parts                       *)
(***************************************************************************)
MaxValueLen == 3

\* an input is head lead mid tail:
\*   assign  key, ` = "`, value, `"`
\*   ip      text before, nothing, the address literal, text after
\*   url     scheme, userinfo, host, path
\*   text    the whole text as head
Sample(kind, head, lead, mid, tail) ==
    [kind |-> kind, head |-> head, lead |-> lead, mid |-> mid, tail |-> tail]
Compose(c) == c.head \o c.lead \o c.mid \o c.tail

SecretKeys ==
    {<<"p","a","s","s","w","o","r","d">>, <<"t","o","k","e","n">>, <<"s","e","c","r","e","t">>, <<"a","p","i","_","k","e","y">>, <<"a","w","s","_","a","c","c","e","s","s","_","k","e","y">>, <<"a","w","s","_","s","e","c","r","e","t","_","k","e","y">>}
ValueAlphabet == {"x", " ", ","}
Values == UNION {[1..n -> ValueAlphabet] : n \in 1..MaxValueLen}
AssignSamples == {Sample("assign", key, <<" ","="," ","\"">>, v, <<"\"">>) : key \in SecretKeys, v \in Values}

IPv4Literals == {<<"1","0",".","0",".","0",".","1">>, <<"1","2","7",".","0",".","0",".","1">>, <<"1","9","2",".","1","6","8",".","1",".","2","0">>, <<"2","5","5",".","2","5","5",".","2","5","5",".","2","5","5">>}
IPv6FullLiterals == {<<"2","0","0","1",":","0","d","b","8",":","8","5","a","3",":","0","0","0","0",":","0","0","0","0",":","8","a","2","e",":","0","3","7","0",":","7","3","3","4">>, <<"1",":","2",":","3",":","4",":","5",":","6",":","7",":","8">>}
IPv6CompressedLiterals == {<<"2","0","0","1",":","d","b","8",":",":","1">>, <<":",":","1">>, <<"f","e","8","0",":",":">>, <<"1",":",":","2">>}
Surroundings == {<<<<>>, <<>>>>, <<<<"h","o","s","t"," ">>, <<" ","u","p">>>>, <<<<"i","p","=">>, <<";">>>>}
IpSamples ==
    {Sample("ip", around[1], <<>>, literal, around[2]) :
        around \in Surroundings,
        literal \in IPv4Literals \cup IPv6FullLiterals \cup IPv6CompressedLiterals}

UrlSamples ==
    {Sample("url", scheme, userinfo, host, path) :
        scheme \in {<<"h","t","t","p",":","/","/">>, <<"h","t","t","p","s",":","/","/">>},
        userinfo \in {<<>>, <<"u","@">>},
        host \in {<<"h","o","s","t",".","e","x","a","m","p","l","e",".","c","o","m">>, <<"a","-","b",".","i","o">>, <<"x","9">>},
        path \in {<<>>, <<"/">>, <<"/","a","/","b">>, <<"/","a","?","q","=","1">>}}

TextSamples ==
    {Sample("text", t, <<>>, <<>>, <<>>) :
        t \in {<<"p","a","s","s","w","o","r","d"," ","="," ","'","s","e","c","r","e","t","1","2","3","'">>, <<"a","w","s","_","a","c","c","e","s","s","_","k","e","y"," ","="," ","'","A","K","I","A","I","O","S","F","O","D","N","N","7","E","X","A","M","P","L","E","'">>,
               <<"h","t","t","p","s",":","/","/","e","x","a","m","p","l","e",".","c","o","m","/","p","a","t","h">>, <<"1","2","7",".","0",".","0",".","1">>,
               <<"2","0","0","1",":","0","d","b","8",":","8","5","a","3",":","0","0","0","0",":","0","0","0","0",":","8","a","2","e",":","0","3","7","0",":","7","3","3","4">>,
               <<"s","e","e"," ","h","t","t","p",":","/","/","a","/","h","t","t","p",":","/","/","b">>, <<"r","e","s","o","u","r","c","e"," ","\"","a","\""," ","\"","b","\""," ","{","}">>}}

Samples == AssignSamples \cup IpSamples \cup UrlSamples \cup TextSamples

SanInit ==
    /\ sample \in Samples
    /\ original = Compose(sample)
    /\ redacted = <<>> /\ again = <<>> /\ step = "input"
    /\ clientType = "chatgpt" /\ terraformDir = Missing /\ ansibleDir = Missing
    /\ planFile = NoFile /\ aiInputFile = NoPrompt /\ stage = "Idle" /\ runs = 0
    /\ terraformAndRegoCode = <<>> /\ ansibleAndRegoCode = <<>> /\ terraformPlan = <<>>
    /\ args = <<>> /\ input = NoInput /\ saved = "none" /\ response = <<>>
    /\ recommendations = NoBody /\ requests = <<>> /\ result = NoResult /\ err = nil
    /\ trace = <<>>

\* client.sanitizeContent(tc.input)
Sanitize ==
    /\ step = "input"
    /\ redacted' = sanitizeContent(original)
    /\ step' = "once"
    /\ UNCHANGED <<sample, original, again, runVars>>

\* the redactor applied to its own output
SanitizeAgain ==
    /\ step = "once"
    /\ again' = sanitizeContent(redacted)
    /\ step' = "twice"
    /\ UNCHANGED <<sample, original, redacted, runVars>>

SanNext == Sanitize \/ SanitizeAgain

SanSpec == SanInit /\ [][SanNext]_vars

(***************************************************************************)
(* Properties                                                              *)
(***************************************************************************)
Visited(s) == \E n \in 1..Len(trace) : trace[n] = s
StartsWith(s, p) == Len(p) <= Len(s) /\ SubSeq(s, 1, Len(p)) = p
EndsWith(s, p) == Len(p) <= Len(s) /\ SubSeq(s, Len(s) - Len(p) + 1, Len(s)) = p
Contains(s, p) == \E n \in 0..(Len(s) - Len(p)) : SubSeq(s, n + 1, n + Len(p)) = p
IsYesIgnoringCase(r) ==
    Len(r) = 3 /\ r[1] \in {"y", "Y"} /\ r[2] \in {"e", "E"} /\ r[3] \in {"s", "S"}
Order ==
    <<"Scanning", "Redacting", "Assembling", "AwaitingConfirmation", "Sending", "Decoding",
      "Done">>

\* C1: once the confirmation gate has answered anything but "yes" (compared
\* without regard to case; the empty answer included), the run is Cancelled: it
\* returns no recommendation and the error "operation cancelled by user", and
\* it has issued no network request.
C1_CancelledWithoutRequest ==
    (Visited("AwaitingConfirmation") /\ ~IsYesIgnoringCase(response))
        => /\ stage = "Cancelled"
           /\ result = Return("", <<"operation cancelled by user">>)
           /\ requests = <<>>

\* C1 witness: the gate answered with an empty line and the run was cancelled.
C1_CancelledOnEmptyAnswer ==
    stage = "Cancelled" /\ Visited("AwaitingConfirmation") /\ response = <<>>

\* C2: for a backend kind other than "chatgpt" and "anthropic_messages",
\* dispatch fails with the unsupported-backend error, and no request was built
\* or sent: the run has issued no network request and read no response.
C2_UnsupportedBackendNoRequest ==
    (Visited("Sending") /\ clientType \notin {"chatgpt", "anthropic_messages"})
        => /\ stage = "Failed"
           /\ result = Return("", <<"failed to get recommendations", "unsupported AI client",
                                   clientType>>)
           /\ requests = <<>>
           /\ recommendations = NoBody

\* C2 witness: dispatch was reached with the backend kind "test-client".
C2_UnsupportedBackendDispatched == Visited("Sending") /\ clientType = "test-client"

C4_NoPartOfValueSurvives ==
    (step # "input" /\ sample.kind = "assign")
        => \A n \in 1..Len(redacted) : redacted[n] # "x"

\* C5: an IPv4 literal, a full IPv6 literal or a "::"-compressed IPv6 literal
\* is replaced, exactly, by [REDACTED], and the text around it is unchanged.
C5_AddressReplacedExactly ==
    (step # "input" /\ sample.kind = "ip")
        => redacted = sample.head \o REDACTED \o sample.tail

\* C6: for an http:// or https:// URL the output keeps the scheme and the
\* path and has [REDACTED] in place of the whole host: the host is gone.
C6_UrlHostReplaced ==
    (step # "input" /\ sample.kind = "url")
        => /\ StartsWith(redacted, sample.head)
           /\ EndsWith(redacted, sample.tail)
           /\ Contains(redacted, REDACTED)
           /\ ~Contains(redacted, sample.mid)

\* C7: redaction is idempotent: sanitizeContent of the output of
\* sanitizeContent is that output.
C7_Idempotent == step = "twice" => again = redacted

\* C8: decoding ends in one of four outcomes and never crashes: the text of
\* content[0] when that is an object with a string text field; the parse error
\* when the body is not JSON; the content-missing error when content is
\* absent, not an array or empty; the text-extraction error for every other
\* first element.  (A JSON body that is no object has no content and does not
\* parse into the map: either error is accepted.)
C8_DecodeOutcomes ==
    Visited("Decoding") =>
        LET b == recommendations
            failed(msg) == stage = "Failed" /\ result.returned /\ result.text = ""
                           /\ result.err # nil /\ result.err[1] = msg
        IN IF ~b.json THEN failed("failed to parse response")
           ELSE IF b.v.k # "object"
           THEN failed("failed to parse response")
                \/ failed("no content found in the response")
           ELSE IF ~HasKey(b.v, "content") \/ Get(b.v, "content").k # "array"
                   \/ Len(Get(b.v, "content").a) = 0
           THEN failed("no content found in the response")
           ELSE LET first == Get(b.v, "content").a[1]
                IN IF first.k = "object" /\ HasKey(first, "text")
                      /\ Get(first, "text").k = "string"
                   THEN stage = "Done" /\ result = Return(Get(first, "text").s, nil)
                   ELSE failed("unable to extract text content from the response")

\* C9 as stated, its last part: every stage that is not terminal has a
\* transition to Failed (for Decoding: some response fails to decode).
FailStep == Next /\ stage' = "Failed"
C9_FailedFromEveryStage ==
    /\ stage \in {"Scanning", "Redacting", "Assembling", "AwaitingConfirmation", "Sending"}
          => ENABLED FailStep
    /\ stage = "Decoding" => \E n \in 1..Len(Bodies) : Decode(Bodies[n]).end = "Failed"

\* C9 amended: the stages follow one another in the order Scanning, Redacting,
\* Assembling, AwaitingConfirmation, Sending, Decoding, Done (a finished run
\* may be followed by a new one); Cancelled is entered only from
\* AwaitingConfirmation; Failed is entered only from Assembling (the prompt
\* cannot be written), Sending and Decoding, so Scanning, Redacting and
\* AwaitingConfirmation have no transition to Failed.
C9_StageTransitions ==
    [][stage' # stage =>
          /\ stage' = "Cancelled" => stage = "AwaitingConfirmation"
          /\ stage' = "Failed" => stage \in {"Assembling", "Sending", "Decoding"}
          /\ stage' \in Range(Order) =>
                \/ \E n \in 1..(Len(Order) - 1) : stage = Order[n] /\ stage' = Order[n + 1]
                \/ stage \in {"Done", "Cancelled", "Failed"} /\ stage' = "Scanning"]_vars

\* C9 witness: a run that failed in Assembling, after Scanning and Redacting.
C9_FailedWhileAssembling ==
    stage = "Failed" /\ trace = <<"Scanning", "Redacting", "Assembling">>

\* C10: a network request is issued only after the prompt has been written to
\* ai_input.txt and the gate has then answered affirmatively, and it carries
\* the prompt that was written; if the write fails the run fails without
\* reaching the gate and without a request.
C10_RequestOnlyAfterReview ==
    /\ requests # <<>> =>
          /\ Len(requests) = 1
          /\ saved = "ok"
          /\ aiInputFile =
                [exists |-> TRUE, content |-> requests[1].requestBody.messages[1].content]
          /\ IsYesIgnoringCase(response)
          /\ Len(trace) >= 5
          /\ SubSeq(trace, 1, 5) = SubSeq(Order, 1, 5)
    /\ saved \in {"open_failed", "write_failed"} =>
          /\ stage = "Failed"
          /\ ~Visited("AwaitingConfirmation")
          /\ response = <<>>
          /\ requests = <<>>

\* C10 witness: a request was issued and its response is being decoded.
C10_RequestIssued == requests # <<>> /\ stage = "Decoding"

====
